---- MODULE Spec2Model ----
(***************************************************************************)
(* Batumi (four-channel LFO): the user interface (Ui::Poll, Ui::DoEvents   *)
(* and the handlers they call) and the processor (Processor::Process,      *)
(* the conversion functions), as a state machine.                          *)
(*                                                                         *)
(* One control tick is Poll, then DoEvents, then (in SpecProc) Process.    *)
(* The millisecond clock advances by one per Poll.  A run of ticks on      *)
(* which every input is steady, no press threshold is passed and no        *)
(* animation ends changes nothing but the clock and the animation          *)
(* counter: Poll takes the number "skip" of such ticks that went before    *)
(* it and accounts for them (see QuietRun), so that a run of the model     *)
(* goes from one instant at which something happens to the next.           *)
(***************************************************************************)
EXTENDS Integers, Sequences, FiniteSets, TLC

\* ---------------------------------------------------------------- constants

kLongPressDuration == 500
kVeryLongPressDuration == 2000
kClearSettingsLongPressDuration == 4000

kPotMoveThreshold == 256
kPotMoveThresholdOnZoomMode == 1024
kPotMoveThresholdOnRandomWaveformSelectMode == 2048
kCatchupThreshold == 1024

UINT16_MAX == 65535

kResetThresholdLow == 10000
kResetThresholdHigh == 20000

kUnsyncPotThreshold == 1638

INT16_MAX == 32767

kSplashFrames == 64
kBlinkFrames == 200

Channels == 0 .. 3

FeatureModes == <<"FEAT_MODE_FREE", "FEAT_MODE_QUAD", "FEAT_MODE_PHASE", "FEAT_MODE_DIVIDE">>

FeatIndex(f) == CHOOSE k \in 1 .. 4 : FeatureModes[k] = f

\* feat_mode_ + 1 without the wrap: Divide stays Divide.
NextFeatModeNoWrap(f) == FeatureModes[IF FeatIndex(f) = 4 THEN 4 ELSE FeatIndex(f) + 1]

\* static_cast<FeatureMode>((feat_mode_ + 1) % FEAT_MODE_LAST)
NextFeatMode(f) == FeatureModes[(FeatIndex(f) % 4) + 1]

\* ------------------------------------------------------------------- bounds


\* ---------------------------------------------------------------- variables

VARIABLES
  \* Ui
  mode, feat_mode, animation_counter,
  pot_value, pot_filtered_value, pot_coarse_value, last_touched_pot,
  press_time, detect_very_long_press, detect_clear_settings_long_press,
  catchup_state, bank, random_waveform_index,
  pot_fine_value, pot_level_value, pot_atten_value, pot_phase_value,
  queue,
  \* collaborators: the clock, the select switch, the flash storage
  now, sw, storage, save_count,
  \* Processor
  previous_feat_mode, reset_trigger_armed, last_reset, waveform_offset,
  reset_triggered, previous_reset, reset_subsample, synced, last_coarse, filtered_cv,
  lfo_calls, reset_low_seen, reset_log,
  \* (reset_low_seen is history: the reset input of channel 3 has read below
  \* the low threshold since the waveform offset last advanced; reset_log is
  \* history too, see NextResetLog)
  \* position in the tick, and history kept for the properties
  pc, pot_moves, hist, press_log

uiVars == <<mode, feat_mode, animation_counter,
            pot_value, pot_filtered_value, pot_coarse_value, last_touched_pot,
            press_time, detect_very_long_press, detect_clear_settings_long_press,
            catchup_state, bank, random_waveform_index,
            pot_fine_value, pot_level_value, pot_atten_value, pot_phase_value,
            queue>>

envVars == <<now, sw, storage, save_count>>

procVars == <<previous_feat_mode, reset_trigger_armed, last_reset, waveform_offset,
              reset_triggered, previous_reset, reset_subsample, synced, last_coarse,
              filtered_cv, lfo_calls, reset_low_seen, reset_log>>

vars == <<uiVars, envVars, procVars, pc, pot_moves, hist, press_log>>

\* --------------------------------------------------------------- arithmetic

Abs(x) == IF x < 0 THEN -x ELSE x

\* ------------------------------------------------- collaborators (not in src)

\* drivers/switches.h: the debounced state of the select switch.  Debounce
\* moves it by the raw level read: a press is reported once as just_pressed,
\* then as pressed while it is held, and its end once as released.
Debounce(state, raw) ==
  CASE state = "up"           -> IF raw = "down" THEN "just_pressed" ELSE "up"
    [] state = "just_pressed" -> IF raw = "down" THEN "pressed" ELSE "released"
    [] state = "pressed"      -> IF raw = "down" THEN "pressed" ELSE "released"
    [] state = "released"     -> IF raw = "down" THEN "just_pressed" ELSE "up"

\* stmlib Event: control_type, control_id, data.
Event(type, id, data) == [control_type |-> type, control_id |-> id, data |-> data]

\* The members that lie in the SETTINGS_SIZE bytes from feat_mode_ on, with
\* one-byte enums: feat_mode_ 0, padding 1..3, bank_ 4..7,
\* classic_waveform_index_ 8..11, random_waveform_index_ 12..15,
\* pot_fine_value_ 16..23, pot_level_value_ 24..31, pot_atten_value_ 32..39,
\* pot_phase_value_ 40..47.
SETTINGS_SIZE == 44

kPhaseOffset == 40

PhaseSaved(i) == kPhaseOffset + 2 * i + 2 <= SETTINGS_SIZE

NoImage == [valid |-> FALSE]

\* storage.ParsimoniousSave(&feat_mode_, SETTINGS_SIZE, &version_token_)
SettingsImage(s) ==
  [valid |-> TRUE,
   feat_mode |-> s.feat_mode,
   bank |-> s.bank,
   random_waveform_index |-> s.random_waveform_index,
   pot_fine_value |-> s.pot_fine_value,
   pot_level_value |-> s.pot_level_value,
   pot_atten_value |-> s.pot_atten_value,
   pot_phase_value |-> [i \in {c \in Channels : PhaseSaved(c)} |-> s.pot_phase_value[i]]]

Save(s) == [s EXCEPT !.storage = SettingsImage(s), !.save_count = s.save_count + 1]

\* ------------------------------------------------------------ Ui: handlers

clearZoomSettings(s) ==
  [s EXCEPT !.pot_fine_value = [i \in Channels |-> UINT16_MAX \div 2],
            !.pot_phase_value = [i \in Channels |-> UINT16_MAX],
            !.pot_level_value = [i \in Channels |-> UINT16_MAX],
            !.pot_atten_value = [i \in Channels |-> UINT16_MAX]]

clearAllHiddenSettings(s) ==
  clearZoomSettings([s EXCEPT !.random_waveform_index = [i \in Channels |-> 0],
                              !.bank = [i \in Channels |-> "BANK_CLASSIC"]])

\* abs(pot_value_[i] - pot_coarse_value_[i]) > kCatchupThreshold
CatchupNeeded(pot, coarse) == Abs(pot - coarse) > kCatchupThreshold

\* gotoNormalModeWithCatchupAndSaving with the coarse values brought to the
\* committed pot values and no channel put into catch-up.
gotoNormalModeSnapping(s) ==
  Save([s EXCEPT !.pot_coarse_value = s.pot_value, !.mode = "UI_MODE_NORMAL"])

gotoNormalModeWithCatchupAndSaving(s) ==
  Save([s EXCEPT !.catchup_state =
                    [i \in Channels |->
                       IF CatchupNeeded(s.pot_value[i], s.pot_coarse_value[i])
                       THEN TRUE ELSE s.catchup_state[i]],
                 !.mode = "UI_MODE_NORMAL"])

tbl_waveformSelectionThreshold == <<9500, 26214, 42312, 60000>>

\* The first i (from 0) with potVal < tbl[i], or 4.
WaveformPos(potVal) ==
  LET below == {i \in 1 .. 4 : potVal < tbl_waveformSelectionThreshold[i]}
  IN IF below = {} THEN 4 ELSE (CHOOSE i \in below : \A j \in below : i <= j) - 1

\* selectRandomWaveformFromPot with the index one too high (pos for pos - 1).
selectRandomWaveformOffByOne(s, id, potVal) ==
  LET pos == WaveformPos(potVal)
  IN IF pos <= 0
     THEN [s EXCEPT !.random_waveform_index[id] = 0, !.bank[id] = "BANK_CLASSIC"]
     ELSE [s EXCEPT !.random_waveform_index[id] = pos, !.bank[id] = "BANK_RANDOM"]

selectRandomWaveformFromPot(s, id, potVal) ==
  LET pos == WaveformPos(potVal)
  IN IF pos <= 0
     THEN [s EXCEPT !.random_waveform_index[id] = 0, !.bank[id] = "BANK_CLASSIC"]
     ELSE [s EXCEPT !.random_waveform_index[id] = pos - 1, !.bank[id] = "BANK_RANDOM"]

OnSwitchPressed(s, e) == s

\* The final else of OnSwitchReleased: e.data <= kLongPressDuration.
OnShortRelease(s) ==
  CASE s.mode \in {"UI_MODE_SPLASH", "UI_MODE_SPLASH_FOR_RANDOM_WAVEFORM_SELECT"} -> s
    [] s.mode \in {"UI_MODE_ZOOM", "UI_MODE_RANDOM_WAVEFORM_SELECT"} ->
         gotoNormalModeWithCatchupAndSaving(s)
    [] s.mode = "UI_MODE_NORMAL" ->
         Save(clearZoomSettings([s EXCEPT !.feat_mode = NextFeatMode(s.feat_mode)]))

\* OnClearSettings without the save.
OnClearSettingsUnsaved(s) ==
  [clearAllHiddenSettings(s) EXCEPT !.animation_counter = 0, !.mode = "UI_MODE_SPLASH"]

OnClearSettings(s) ==
  Save([clearAllHiddenSettings(s) EXCEPT !.animation_counter = 0,
                                         !.mode = "UI_MODE_SPLASH"])

OnVeryLongPress(s) ==
  IF s.mode # "UI_MODE_RANDOM_WAVEFORM_SELECT"
  THEN [s EXCEPT !.mode = "UI_MODE_SPLASH_FOR_RANDOM_WAVEFORM_SELECT",
                 !.animation_counter = 0]
  ELSE s

OnLongPress(s) ==
  IF s.mode = "UI_MODE_NORMAL" THEN [s EXCEPT !.mode = "UI_MODE_ZOOM"]
  ELSE IF s.mode = "UI_MODE_ZOOM" THEN gotoNormalModeWithCatchupAndSaving(s)
  ELSE s

\* case SWITCH_SELECT (the only switch Poll queues events for)
OnSwitchReleased(s, e) ==
  IF e.data > kClearSettingsLongPressDuration THEN OnClearSettings(s)
  ELSE IF e.data > kVeryLongPressDuration THEN OnVeryLongPress(s)
  ELSE IF e.data > kLongPressDuration THEN OnLongPress(s)
  ELSE OnShortRelease(s)

\* OnPotChangedZoom writing to the channel of the pot that moved, not to the
\* last-touched one.
OnPotChangedZoomOwnChannel(s, e) ==
  CASE e.control_id = 0 -> [s EXCEPT !.pot_fine_value[e.control_id] = e.data]
    [] e.control_id = 1 -> [s EXCEPT !.pot_level_value[e.control_id] = e.data]
    [] e.control_id = 2 -> [s EXCEPT !.pot_atten_value[e.control_id] = e.data]
    [] e.control_id = 3 -> [s EXCEPT !.pot_phase_value[e.control_id] = e.data]

OnPotChangedZoom(s, e) ==
  CASE e.control_id = 0 -> [s EXCEPT !.pot_fine_value[s.last_touched_pot] = e.data]
    [] e.control_id = 1 -> [s EXCEPT !.pot_level_value[s.last_touched_pot] = e.data]
    [] e.control_id = 2 -> [s EXCEPT !.pot_atten_value[s.last_touched_pot] = e.data]
    [] e.control_id = 3 -> [s EXCEPT !.pot_phase_value[s.last_touched_pot] = e.data]

\* abs(e.data - pot_coarse_value_[e.control_id]) < kCatchupThreshold
CaughtUp(data, coarse) == Abs(data - coarse) < kCatchupThreshold

\* OnPotChangedNormal without the catch-up test: the coarse value always
\* tracks the pot.
OnPotChangedTracking(s, e) ==
  [s EXCEPT !.last_touched_pot = e.control_id, !.pot_coarse_value[e.control_id] = e.data]

OnPotChangedNormal(s, e) ==
  LET t == [s EXCEPT !.last_touched_pot = e.control_id]
  IN IF ~s.catchup_state[e.control_id]
     THEN [t EXCEPT !.pot_coarse_value[e.control_id] = e.data]
     ELSE IF CaughtUp(e.data, s.pot_coarse_value[e.control_id])
          THEN [t EXCEPT !.pot_coarse_value[e.control_id] = e.data,
                         !.catchup_state[e.control_id] = FALSE]
          ELSE t

\* OnPotChanged without the case of UI_MODE_SPLASH: Splash tracks the pots as
\* Normal does.
OnPotChangedInSplash(s, e) ==
  CASE s.mode = "UI_MODE_SPLASH_FOR_RANDOM_WAVEFORM_SELECT" -> s
    [] s.mode = "UI_MODE_ZOOM" -> OnPotChangedZoom(s, e)
    [] s.mode \in {"UI_MODE_NORMAL", "UI_MODE_SPLASH"} -> OnPotChangedNormal(s, e)
    [] s.mode = "UI_MODE_RANDOM_WAVEFORM_SELECT" ->
         selectRandomWaveformFromPot(s, e.control_id, e.data)

OnPotChanged(s, e) ==
  CASE s.mode \in {"UI_MODE_SPLASH", "UI_MODE_SPLASH_FOR_RANDOM_WAVEFORM_SELECT"} -> s
    [] s.mode = "UI_MODE_ZOOM" -> OnPotChangedZoom(s, e)
    [] s.mode = "UI_MODE_NORMAL" -> OnPotChangedNormal(s, e)
    [] s.mode = "UI_MODE_RANDOM_WAVEFORM_SELECT" ->
         selectRandomWaveformFromPot(s, e.control_id, e.data)

\* The body of the loop of DoEvents, for one event.
HandleEvent(s, e) ==
  IF e.control_type = "CONTROL_SWITCH"
  THEN IF e.data = 0 THEN OnSwitchPressed(s, e) ELSE OnSwitchReleased(s, e)
  ELSE IF e.control_type = "CONTROL_POT" THEN OnPotChanged(s, e)
  ELSE s

RECURSIVE Drain(_, _)
\* while (queue_.available()) { Event e = queue_.PullEvent(); ... }
Drain(s, q) == IF q = <<>> THEN s ELSE Drain(HandleEvent(s, Head(q)), Tail(q))

\* ---------------------------------------------------------------- Ui: Poll

\* The switch part of Poll for the select switch, at clock value t:
\* the events queued and the new press_time_ and stage flags.
PollSwitch(state, t, pt, vl, cs) ==
  LET jp == state = "just_pressed"
      e1 == IF jp THEN <<Event("CONTROL_SWITCH", "SWITCH_SELECT", 0)>> ELSE <<>>
      pt1 == IF jp THEN t ELSE pt
      vl1 == IF jp THEN FALSE ELSE vl
      cs1 == IF jp THEN FALSE ELSE cs
      held == state = "pressed" /\ pt1 # 0
      pressed_time == t - pt1
      long == held /\ ~cs1 /\ ~vl1 /\ pressed_time > kLongPressDuration
      verylong == held /\ ~cs1 /\ vl1 /\ pressed_time > kVeryLongPressDuration
      clear == held /\ cs1 /\ pressed_time > kClearSettingsLongPressDuration
      e2 == IF long \/ verylong \/ clear
            THEN <<Event("CONTROL_SWITCH", "SWITCH_SELECT", pressed_time)>> ELSE <<>>
      vl2 == IF long THEN TRUE ELSE IF verylong \/ clear THEN FALSE ELSE vl1
      cs2 == IF verylong THEN TRUE ELSE IF clear THEN FALSE ELSE cs1
      pt2 == IF clear THEN 0 ELSE pt1
      rel == state = "released" /\ pt2 # 0 /\ ~vl2 /\ ~cs2
      e3 == IF rel
            THEN <<Event("CONTROL_SWITCH", "SWITCH_SELECT", t - pt2 + 1)>> ELSE <<>>
      pt3 == IF rel THEN 0 ELSE pt2
  IN [events |-> e1 \o e2 \o e3,
      press_time |-> pt3,
      detect_very_long_press |-> vl2,
      detect_clear_settings_long_press |-> cs2,
      stage |-> IF long THEN "long" ELSE IF verylong THEN "verylong"
                ELSE IF clear THEN "clear" ELSE IF rel THEN "release" ELSE "none"]

\* Decide pot move threshold
PotMoveThreshold(m) ==
  IF m = "UI_MODE_ZOOM" THEN kPotMoveThresholdOnZoomMode
  ELSE IF m = "UI_MODE_RANDOM_WAVEFORM_SELECT"
       THEN kPotMoveThresholdOnRandomWaveformSelectMode
       ELSE kPotMoveThreshold

\* (31 * pot_filtered_value_[i] + adc_value) >> 5
FilterPot(filtered, adc_value) == (31 * filtered + adc_value) \div 32

\* PotMoved with the comparisons strict: a move of exactly the threshold is
\* no move.
PotMovedStrict(value, current_value, potMoveThreshold) ==
  value > current_value + potMoveThreshold \/ value < current_value - potMoveThreshold

\* value >= current_value + potMoveThreshold || value <= current_value - potMoveThreshold
PotMoved(value, current_value, potMoveThreshold) ==
  value >= current_value + potMoveThreshold \/ value <= current_value - potMoveThreshold

RECURSIVE PotEvents(_, _, _, _)
\* The events of the pot loop of Poll, in the order of the pots from i on.
PotEvents(i, value, current, threshold) ==
  IF i > 3 THEN <<>>
  ELSE (IF PotMoved(value[i], current[i], threshold)
        THEN <<Event("CONTROL_POT", i, value[i])>> ELSE <<>>)
       \o PotEvents(i + 1, value, current, threshold)

\* Paint without the reset of the animation counter at the end of the
\* blinking.
PaintKeepsCounter(m, counter) ==
  CASE m = "UI_MODE_SPLASH" ->
         [mode |-> IF counter % kSplashFrames = 0 /\ counter \div kSplashFrames > 3
                   THEN "UI_MODE_NORMAL" ELSE m,
          animation_counter |-> counter + 1]
    [] m = "UI_MODE_SPLASH_FOR_RANDOM_WAVEFORM_SELECT" ->
         [mode |-> IF counter + 1 >= 2 * kBlinkFrames - 1
                   THEN "UI_MODE_RANDOM_WAVEFORM_SELECT" ELSE m,
          animation_counter |-> counter + 1]
    [] OTHER -> [mode |-> m, animation_counter |-> counter + 1]

\* paint the interface: the mode and the animation counter after it.
Paint(m, counter) ==
  CASE m = "UI_MODE_SPLASH" ->
         [mode |-> IF counter % kSplashFrames = 0 /\ counter \div kSplashFrames > 3
                   THEN "UI_MODE_NORMAL" ELSE m,
          animation_counter |-> counter + 1]
    [] m = "UI_MODE_SPLASH_FOR_RANDOM_WAVEFORM_SELECT" ->
         IF counter + 1 >= 2 * kBlinkFrames - 1
         THEN [mode |-> "UI_MODE_RANDOM_WAVEFORM_SELECT", animation_counter |-> 0]
         ELSE [mode |-> m, animation_counter |-> counter + 1]
    [] OTHER -> [mode |-> m, animation_counter |-> counter + 1]

\* The record of the Ui members the event handlers read and write.
UiRec ==
  [mode |-> mode, feat_mode |-> feat_mode, animation_counter |-> animation_counter,
   pot_value |-> pot_value, pot_coarse_value |-> pot_coarse_value,
   last_touched_pot |-> last_touched_pot, catchup_state |-> catchup_state,
   bank |-> bank, random_waveform_index |-> random_waveform_index,
   pot_fine_value |-> pot_fine_value, pot_level_value |-> pot_level_value,
   pot_atten_value |-> pot_atten_value, pot_phase_value |-> pot_phase_value,
   storage |-> storage, save_count |-> save_count]

\* The threshold the held switch passes next.
NextPressThreshold ==
  IF detect_clear_settings_long_press THEN kClearSettingsLongPressDuration
  ELSE IF detect_very_long_press THEN kVeryLongPressDuration
  ELSE kLongPressDuration

\* The number of ticks for which Paint only counts: before Splash ends (at
\* 4 * 64) and before the blinking ends (at 2 * 200 - 1).
AnimationLeft ==
  IF mode = "UI_MODE_SPLASH" THEN 4 * kSplashFrames - animation_counter
  ELSE IF mode = "UI_MODE_SPLASH_FOR_RANDOM_WAVEFORM_SELECT"
       THEN 2 * kBlinkFrames - 2 - animation_counter
       ELSE -1

\* n ticks from here on which Poll and DoEvents change nothing but the clock
\* and the animation counter, every pot reading its filtered value and the
\* switch level staying as it is: no pot event is due, the switch is up or
\* held and not past its next threshold by the last of them, and the
\* animation does not end on any of them.
QuietRun(n) ==
  /\ sw \in {"up", "pressed"}
  /\ (sw = "pressed" /\ press_time # 0) => now + n - press_time <= NextPressThreshold
  /\ \A i \in Channels :
       ~PotMoved(pot_filtered_value[i], pot_value[i], PotMoveThreshold(mode))
  /\ AnimationLeft # -1 => n <= AnimationLeft
  /\ queue = <<>>

\* Ui::Poll, after skip quiet ticks, reading the raw switch level raw and the
\* pot samples adc.
Poll(skip, raw, adc) ==
  LET t == now + skip + 1
      state == Debounce(sw, raw)
      s == PollSwitch(state, t, press_time, detect_very_long_press,
                      detect_clear_settings_long_press)
      threshold == PotMoveThreshold(mode)
      value == [i \in Channels |-> FilterPot(pot_filtered_value[i], adc[i])]
      pots == PotEvents(0, value, pot_value, threshold)
      painted == Paint(mode, animation_counter + skip)
  IN /\ pc = "poll"
     /\ skip > 0 => QuietRun(skip)
     /\ now' = t
     /\ sw' = state
     /\ press_time' = s.press_time
     /\ detect_very_long_press' = s.detect_very_long_press
     /\ detect_clear_settings_long_press' = s.detect_clear_settings_long_press
     /\ pot_filtered_value' = value
     /\ pot_value' = [i \in Channels |->
                        IF PotMoved(value[i], pot_value[i], threshold)
                        THEN value[i] ELSE pot_value[i]]
     /\ queue' = queue \o s.events \o pots
     /\ mode' = painted.mode
     /\ animation_counter' = painted.animation_counter
     /\ pot_moves' = pot_moves + Cardinality({i \in Channels : adc[i] # pot_filtered_value[i]})
     /\ press_log' = IF state = "just_pressed"
                     THEN [start |-> t, stages |-> <<>>, data |-> <<>>, held |-> 0,
                           count |-> press_log.count + 1]
                     ELSE [press_log EXCEPT
                             !.stages = IF s.stage = "none" THEN @ ELSE Append(@, s.stage),
                             !.data = IF s.stage = "none" THEN @
                                      ELSE Append(@, s.events[Len(s.events)].data),
                             !.held = IF state = "pressed" THEN t - press_log.start
                                      ELSE IF sw = "pressed" THEN t - 1 - press_log.start
                                      ELSE @]
     /\ hist' = [kind |-> "Poll", mode |-> mode, adc |-> adc, skip |-> skip,
                 animation_counter |-> animation_counter,
                 pot_value |-> pot_value, pot_filtered_value |-> pot_filtered_value,
                 stage |-> s.stage]
     /\ pc' = "events"
     /\ UNCHANGED <<feat_mode, pot_coarse_value, last_touched_pot, catchup_state, bank,
                    random_waveform_index, pot_fine_value, pot_level_value,
                    pot_atten_value, pot_phase_value, storage, save_count, procVars>>

\* Ui::DoEvents; the tick goes on at position next.
DoEvents(next) ==
  /\ pc = "events"
  /\ \E r \in {Drain(UiRec, queue)} :
     /\ mode' = r.mode
     /\ feat_mode' = r.feat_mode
     /\ animation_counter' = r.animation_counter
     /\ pot_value' = r.pot_value
     /\ pot_coarse_value' = r.pot_coarse_value
     /\ last_touched_pot' = r.last_touched_pot
     /\ catchup_state' = r.catchup_state
     /\ bank' = r.bank
     /\ random_waveform_index' = r.random_waveform_index
     /\ pot_fine_value' = r.pot_fine_value
     /\ pot_level_value' = r.pot_level_value
     /\ pot_atten_value' = r.pot_atten_value
     /\ pot_phase_value' = r.pot_phase_value
     /\ storage' = r.storage
     /\ save_count' = r.save_count
     /\ queue' = <<>>
     /\ hist' = [kind |-> "DoEvents", before |-> UiRec, events |-> queue]
     /\ pc' = next
     /\ UNCHANGED <<pot_filtered_value, press_time, detect_very_long_press,
                    detect_clear_settings_long_press, now, sw, pot_moves, press_log,
                    procVars>>

\* ---------------------------------------------------------------- Processor

\* The oscillator and DAC calls of one Process: none.
NoCalls ==
  [init |-> FALSE, stepped |-> FALSE,
   set_period |-> [i \in Channels |-> -1],
   reset |-> [i \in Channels |-> -1],
   set_pitch |-> [i \in Channels |-> FALSE],
   set_initial_phase |-> [i \in Channels |-> -1],
   set_divider |-> [i \in Channels |-> -1]]

\* CONSTRAIN(var, min, max)
Constrain(x, lo, hi) == IF x < lo THEN lo ELSE IF x > hi THEN hi ELSE x

\* C integer division: the quotient truncated toward zero (b # 0).
TruncDiv(a, b) ==
  IF (a >= 0) = (b > 0) THEN Abs(a) \div Abs(b) ELSE -(Abs(a) \div Abs(b))

\* The record of the Processor members.
ProcRec ==
  [previous_feat_mode |-> previous_feat_mode, reset_trigger_armed |-> reset_trigger_armed,
   last_reset |-> last_reset, waveform_offset |-> waveform_offset,
   reset_triggered |-> reset_triggered, previous_reset |-> previous_reset,
   reset_subsample |-> reset_subsample, synced |-> synced, last_coarse |-> last_coarse,
   filtered_cv |-> filtered_cv, lfo_calls |-> lfo_calls]

\* ResetOnModeChange without the reset of the waveform offset.
ResetOnModeChangeKeepsOffset(p, feat) ==
  IF feat # p.previous_feat_mode
  THEN [p EXCEPT !.lfo_calls.init = TRUE, !.previous_feat_mode = feat]
  ELSE p

\* reset the LFOs if mode changed
ResetOnModeChange(p, feat) ==
  IF feat # p.previous_feat_mode
  THEN [p EXCEPT !.lfo_calls.init = TRUE, !.previous_feat_mode = feat,
                 !.waveform_offset = 0]
  ELSE p

\* The body of the channel loop of Process for channel i, its CV input
\* reading cv and its reset input reading reset: filter CV, detect triggers
\* on the reset input.  undef is what the division gives when the divisor
\* is 0.
ReadChannel(p, i, cv, reset, undef) ==
  LET armed == IF reset < kResetThresholdLow THEN TRUE ELSE p.reset_trigger_armed[i]
      trig == reset > kResetThresholdHigh /\ armed
      dist_to_trig == kResetThresholdHigh - p.previous_reset[i]
      dist_to_next == reset - p.previous_reset[i]
  IN [p EXCEPT !.filtered_cv[i] = @ + ((cv - @) \div 64),
               !.reset_trigger_armed[i] = armed,
               !.reset_triggered[i] = trig,
               !.reset_subsample[i] =
                  IF ~trig THEN @
                  ELSE IF dist_to_next = 0 THEN undef
                  ELSE TruncDiv(dist_to_trig * 32, dist_to_next),
               !.previous_reset[i] = reset]

RECURSIVE ReadChannels(_, _, _, _, _)
ReadChannels(p, i, cv, reset, undef) ==
  IF i > 3 THEN p
  ELSE ReadChannels(ReadChannel(p, i, cv[i], reset[i], undef), i + 1, cv, reset, undef)

\* CoarseMoved with the comparisons strict: a move of exactly the threshold
\* is no move.
CoarseMovedStrict(coarse, last) ==
  coarse > last + kUnsyncPotThreshold \/ coarse < last - kUnsyncPotThreshold

\* ui_->coarse(lfo_no) >= last_coarse_ + kUnsyncPotThreshold ||
\* ui_->coarse(lfo_no) <= last_coarse_ - kUnsyncPotThreshold
CoarseMoved(coarse, last) ==
  coarse >= last + kUnsyncPotThreshold \/ coarse <= last - kUnsyncPotThreshold

\* Processor::SetFrequency(lfo_no), with the sync switch at sync and the
\* channel's coarse value coarse.
SetFrequency(p, lfo_no, sync, coarse) ==
  LET q == IF p.reset_triggered[lfo_no]
           THEN [(IF sync
                  THEN [p EXCEPT !.lfo_calls.set_period[lfo_no] = p.last_reset[lfo_no],
                                 !.synced[lfo_no] = TRUE]
                  ELSE [p EXCEPT !.lfo_calls.reset[lfo_no] = p.reset_subsample[lfo_no]])
                 EXCEPT !.reset_trigger_armed[lfo_no] = FALSE,
                        !.last_reset[lfo_no] = 0]
           ELSE [p EXCEPT !.last_reset[lfo_no] = @ + 1]
  IN IF ~q.synced[lfo_no] \/ CoarseMoved(coarse, q.last_coarse[lfo_no])
     THEN [q EXCEPT !.lfo_calls.set_pitch[lfo_no] = TRUE,
                    !.last_coarse[lfo_no] = coarse,
                    !.synced[lfo_no] = FALSE]
     ELSE q

RECURSIVE SetFrequencies(_, _, _, _)
\* for (i = 0; i < kNumChannels; i++) SetFrequency(i), from channel i on
SetFrequencies(p, i, sync, coarse) ==
  IF i > 3 THEN p
  ELSE SetFrequencies(SetFrequency(p, i, sync, coarse[i]), i + 1, sync, coarse)

\* AdvanceWaveform without the disarming of channel 3.
AdvanceWaveformArmed(p) ==
  IF p.reset_triggered[3] THEN [p EXCEPT !.waveform_offset = @ + 1] ELSE p

\* reset 4 changes waveform
AdvanceWaveform(p) ==
  IF p.reset_triggered[3]
  THEN [p EXCEPT !.waveform_offset = @ + 1, !.reset_trigger_armed[3] = FALSE]
  ELSE p

\* ui_->fine(channel): pot_fine_value_[channel] - 32768 as int16_t
Fine(u, i) == u.pot_fine_value[i] - 32768

\* (filtered_cv_[i] * ui_->atten(i)) >> 16
AttenuatedCv(p, u, i) == (p.filtered_cv[i] * u.pot_atten_value[i]) \div 65536

\* stmlib Interpolate88(table, index): the table read at index >> 8, with
\* the low byte of index interpolating to the next entry.
Interpolate88(table, index) ==
  LET a == table[index \div 256]
      b == table[index \div 256 + 1]
  IN a + (((b - a) * (index % 256)) \div 256)

\* lut_scale_phase (of the resources, not in src): 257 entries, "completely
\* linear".
lut_scale_phase == [k \in 0 .. 256 |-> IF k = 256 THEN UINT16_MAX ELSE 256 * k]

\* AdcValuesToPhase(pot, fine, cv); pot = 65536 - pot in uint16_t.
AdcValuesToPhase(pot, fine, cv) ==
  Interpolate88(lut_scale_phase,
                Constrain(((65536 - pot) % 65536) + cv + TruncDiv(fine, 8), 0, UINT16_MAX))

\* if all the pots are maxed out, quadrature mode
Quadrature(coarse) == \A i \in 1 .. 3 : coarse[i] > UINT16_MAX - 256

\* (kNumChannels - i) * (UINT16_MAX >> 2)
QuadraturePhase(i) == (4 - i) * (UINT16_MAX \div 4)

\* (7 * (65535 - ui_->phase(i))) >> 16, constrained to 1 .. 16
PhaseDivider(phase) == Constrain((7 * (65535 - phase)) \div 65536, 1, 16)

\* (7 * (65535 - ui_->level(i))) >> 16, plus i + 1, constrained to 1 .. 16
QuadDivider(level, i) == Constrain(((7 * (65535 - level)) \div 65536) + i + 1, 1, 16)

\* The calls of set_initial_phase and set_divider on the linked channels
\* 1 .. 3 in Phase (channel 0 gets neither).
PhaseLinks(p, u) ==
  IF Quadrature(u.pot_coarse_value)
  THEN [p EXCEPT !.lfo_calls.set_initial_phase =
                    [i \in Channels |-> IF i = 0 THEN @[i] ELSE QuadraturePhase(i)]]
  ELSE [p EXCEPT !.lfo_calls.set_initial_phase =
                    [i \in Channels |->
                       IF i = 0 THEN @[i]
                       ELSE AdcValuesToPhase(u.pot_coarse_value[i], Fine(u, i),
                                             AttenuatedCv(p, u, i))],
                 !.lfo_calls.set_divider =
                    [i \in Channels |->
                       IF i = 0 THEN @[i] ELSE PhaseDivider(u.pot_phase_value[i])]]

\* lfo_[i].set_initial_phase(ui_->phase(i)) for every channel.
PanelPhases(p, u) ==
  [p EXCEPT !.lfo_calls.set_initial_phase = u.pot_phase_value]

\* The switch on ui_->feat_mode() of Process, u holding the members of the
\* Ui.  (The levels, and the divider and the multiplier of Divide, which
\* come from tables that are not in src, are not recorded.)
Topology(p, u, sync) ==
  CASE u.feat_mode = "FEAT_MODE_FREE" ->
         PanelPhases(SetFrequencies(p, 0, sync, u.pot_coarse_value), u)
    [] u.feat_mode = "FEAT_MODE_QUAD" ->
         LET q == PanelPhases(
                    AdvanceWaveform(SetFrequency(p, 0, sync, u.pot_coarse_value[0])), u)
         IN [q EXCEPT !.lfo_calls.set_divider =
                        [i \in Channels |->
                           IF i = 0 THEN @[i] ELSE QuadDivider(u.pot_level_value[i], i)]]
    [] u.feat_mode = "FEAT_MODE_PHASE" ->
         PhaseLinks(AdvanceWaveform(SetFrequency(p, 0, sync, u.pot_coarse_value[0])), u)
    [] u.feat_mode = "FEAT_MODE_DIVIDE" ->
         LET q == PanelPhases(
                    AdvanceWaveform(SetFrequency(p, 0, sync, u.pot_coarse_value[0])), u)
         IN IF ~sync /\ q.reset_triggered[0]
            THEN [q EXCEPT !.lfo_calls.reset =
                    [i \in Channels |-> IF i = 0 THEN @[i] ELSE q.reset_subsample[0]]]
            ELSE q

\* Processor::Process in a mode other than Splash, with the sync switch at
\* sync, the CV inputs reading cv and the reset inputs reading reset.
ProcessBody(p, u, sync, cv, reset, undef) ==
  LET fresh == [p EXCEPT !.lfo_calls = [NoCalls EXCEPT !.stepped = TRUE]]
  IN Topology(ReadChannels(ResetOnModeChange(fresh, u.feat_mode), 0, cv, reset, undef),
              u, sync)

\* Process without the test of the UI mode: it runs during the splash
\* animation too.
ProcessInSplash(p, u, sync, cv, reset, undef) ==
  ProcessBody(p, u, sync, cv, reset, undef)

\* Processor::Process
ProcessStep(p, u, sync, cv, reset, undef) ==
  IF u.mode = "UI_MODE_SPLASH" THEN [p EXCEPT !.lfo_calls = NoCalls]
  ELSE ProcessBody(p, u, sync, cv, reset, undef)

\* The channels Process calls SetFrequency for in feature mode feat.
Master(feat, i) == feat = "FEAT_MODE_FREE" \/ i = 0

\* The history of the reset inputs after a Process that ran in feature mode
\* feat, for each channel: low_since, the input has read below the low
\* threshold on a tick since the channel was last reset-triggered (since
\* start-up if it never was); ticks_since, the number of ticks since it was
\* last reset-triggered, SetFrequency having run for it on every one of them
\* (-1 if there is no such trigger).
NextResetLog(log, feat, triggered, reset) ==
  [low_since |-> [i \in Channels |->
                    IF triggered[i] THEN FALSE
                    ELSE log.low_since[i] \/ reset[i] < kResetThresholdLow],
   ticks_since |-> [i \in Channels |->
                      IF ~Master(feat, i) THEN -1
                      ELSE IF triggered[i] THEN 0
                      ELSE IF log.ticks_since[i] < 0 THEN -1
                      ELSE log.ticks_since[i] + 1]]

Process(sync, cv, reset, undef) ==
  /\ pc = "process"
  /\ \E r \in {ProcessStep(ProcRec, UiRec, sync, cv, reset, undef)} :
     /\ previous_feat_mode' = r.previous_feat_mode
     /\ reset_trigger_armed' = r.reset_trigger_armed
     /\ last_reset' = r.last_reset
     /\ waveform_offset' = r.waveform_offset
     /\ reset_triggered' = r.reset_triggered
     /\ previous_reset' = r.previous_reset
     /\ reset_subsample' = r.reset_subsample
     /\ synced' = r.synced
     /\ last_coarse' = r.last_coarse
     /\ filtered_cv' = r.filtered_cv
     /\ lfo_calls' = r.lfo_calls
     /\ reset_low_seen' =
          IF r.lfo_calls = NoCalls THEN reset_low_seen
          ELSE IF r.waveform_offset # (IF r.lfo_calls.init THEN 0 ELSE waveform_offset)
               THEN FALSE
               ELSE reset_low_seen \/ reset[3] < kResetThresholdLow
     /\ reset_log' = IF r.lfo_calls = NoCalls THEN reset_log
                      ELSE NextResetLog(reset_log, feat_mode, r.reset_triggered, reset)
     /\ hist' = [kind |-> "Process", before |-> ProcRec, mode |-> mode,
                 feat_mode |-> feat_mode, sync |-> sync, cv |-> cv, reset |-> reset,
                 reset_low_seen |-> reset_low_seen, reset_log |-> reset_log]
     /\ pc' = "poll"
     /\ UNCHANGED <<uiVars, envVars, pot_moves, press_log>>

\* ------------------------------------------------------------ conversions

\* The conversion of an int to int8_t.
Int8(x) == ((x + 128) % 256) - 128

\* ctrl >> 8, for ctrl = pot + cv constrained to 0 .. UINT16_MAX
CtrlIndex(pot, cv) == Constrain(pot + cv, 0, UINT16_MAX) \div 256

\* (5 * static_cast<int32_t>(fine + INT16_MAX / 5)) >> 16
FineStep(fine) == (5 * (fine + INT16_MAX \div 5)) \div 65536

\* DividerMultiplier with one clamp for both signs: no value is skipped.
DividerMultiplierUnskipped(entry, fine) == Constrain(Int8(entry - fine), -64, 64)

\* AdcValuesToDividerMultiplier from the table lookup on: entry is
\* lut_scale_divide_multiply[ctrl >> 8] and fine the fine step.
DividerMultiplier(entry, fine) ==
  LET sub == Int8(entry - fine)
      div == IF fine > 1 THEN (IF sub = 0 THEN -2 ELSE IF sub = -1 THEN -3 ELSE sub)
             ELSE IF fine = 1 THEN (IF sub = 0 THEN -2 ELSE sub)
             ELSE IF fine < -1 THEN (IF sub = 0 THEN 2 ELSE sub)
             ELSE IF fine = -1 THEN sub
             ELSE entry
  IN IF div >= -1 THEN Constrain(div, 1, 64) ELSE Constrain(div, -64, -2)

\* AdcValuesToDividerMultiplier, with the table lut_scale_divide_multiply
\* (of the resources, not in src) given as lut.
AdcValuesToDividerMultiplier(lut, pot, fine, cv) ==
  DividerMultiplier(lut[CtrlIndex(pot, cv)], FineStep(fine))

\* ---------------------------------------------------------------- Ui: Init

\* The pot readings at start-up.
InitPots == <<5000, 28000, 41000, 65535>>

\* An image a save on leaving Zoom left in the flash, the feature mode
\* being feat.
SavedImage(feat) ==
  [valid |-> TRUE, feat_mode |-> feat,
   bank |-> [i \in Channels |-> IF i \in {0, 1} THEN "BANK_RANDOM" ELSE "BANK_CLASSIC"],
   random_waveform_index |-> [i \in Channels |-> IF i \in {0, 1} THEN 3 - i ELSE 0],
   pot_fine_value |-> [i \in Channels |-> IF i = 0 THEN 40000 ELSE UINT16_MAX \div 2],
   pot_level_value |-> [i \in Channels |-> IF i = 1 THEN 20000 ELSE UINT16_MAX],
   pot_atten_value |-> [i \in Channels |-> UINT16_MAX],
   pot_phase_value |-> [i \in {c \in Channels : PhaseSaved(c)} |-> UINT16_MAX]]

\* What the flash holds at start-up: nothing valid, or an image saved in
\* feature mode Phase.
InitStorage == {NoImage, SavedImage("FEAT_MODE_PHASE")}

\* The same, with an image for every feature mode.
AnyStorage == {NoImage} \cup {SavedImage(FeatureModes[n]) : n \in 1 .. 4}

\* The Ui object before Init: static storage, every member zero.
ZeroUi ==
  [mode |-> "UI_MODE_SPLASH", feat_mode |-> "FEAT_MODE_FREE", animation_counter |-> 0,
   pot_value |-> [i \in Channels |-> 0], pot_coarse_value |-> [i \in Channels |-> 0],
   last_touched_pot |-> 0, catchup_state |-> [i \in Channels |-> FALSE],
   bank |-> [i \in Channels |-> "BANK_CLASSIC"],
   random_waveform_index |-> [i \in Channels |-> 0],
   pot_fine_value |-> [i \in Channels |-> 0], pot_level_value |-> [i \in Channels |-> 0],
   pot_atten_value |-> [i \in Channels |-> 0], pot_phase_value |-> [i \in Channels |-> 0],
   storage |-> NoImage, save_count |-> 0]

\* storage.ParsimoniousLoad(&feat_mode_, SETTINGS_SIZE, &version_token_), true
Load(s, image) ==
  [s EXCEPT !.feat_mode = image.feat_mode,
            !.bank = image.bank,
            !.random_waveform_index = image.random_waveform_index,
            !.pot_fine_value = image.pot_fine_value,
            !.pot_level_value = image.pot_level_value,
            !.pot_atten_value = image.pot_atten_value,
            !.pot_phase_value = [i \in Channels |->
                                   IF PhaseSaved(i) THEN image.pot_phase_value[i] ELSE @[i]]]

\* UiInit without the call of clearAllHiddenSettings when the load fails.
UiInitNoDefaults(image, adc) ==
  LET z == [ZeroUi EXCEPT !.storage = image]
      loaded == IF image.valid THEN Load(z, image)
                ELSE [z EXCEPT !.feat_mode = "FEAT_MODE_FREE"]
  IN [loaded EXCEPT !.mode = "UI_MODE_SPLASH",
                    !.animation_counter = 0,
                    !.pot_value = adc,
                    !.pot_coarse_value = adc,
                    !.catchup_state = [i \in Channels |-> FALSE]]

\* Ui::Init with the flash holding image and the pots reading adc.
UiInit(image, adc) ==
  LET z == [ZeroUi EXCEPT !.storage = image]
      loaded == IF image.valid THEN Load(z, image)
                ELSE clearAllHiddenSettings([z EXCEPT !.feat_mode = "FEAT_MODE_FREE"])
  IN [loaded EXCEPT !.mode = "UI_MODE_SPLASH",
                    !.animation_counter = 0,
                    !.pot_value = adc,
                    !.pot_coarse_value = adc,
                    !.catchup_state = [i \in Channels |-> FALSE]]

InitUi(images, readings) ==
  \E image \in images, reading \in readings :
    LET u == UiInit(image, [i \in Channels |-> reading[i + 1]])
    IN /\ mode = u.mode
       /\ feat_mode = u.feat_mode
       /\ animation_counter = u.animation_counter
       /\ pot_value = u.pot_value
       /\ pot_filtered_value = u.pot_value
       /\ pot_coarse_value = u.pot_coarse_value
       /\ last_touched_pot = u.last_touched_pot
       /\ catchup_state = u.catchup_state
       /\ bank = u.bank
       /\ random_waveform_index = u.random_waveform_index
       /\ pot_fine_value = u.pot_fine_value
       /\ pot_level_value = u.pot_level_value
       /\ pot_atten_value = u.pot_atten_value
       /\ pot_phase_value = u.pot_phase_value
       /\ storage = u.storage
       /\ save_count = 0
       /\ queue = <<>>
       /\ press_time = 0
       /\ detect_very_long_press = FALSE
       /\ detect_clear_settings_long_press = FALSE
       /\ now = 0
       /\ sw = "up"

\* Processor::Init; the members it does not set are zero (static storage).
InitProc ==
  /\ previous_feat_mode = "FEAT_MODE_LAST"
  /\ reset_trigger_armed = [i \in Channels |-> FALSE]
  /\ last_reset = [i \in Channels |-> 0]
  /\ waveform_offset = 0
  /\ reset_triggered = [i \in Channels |-> FALSE]
  /\ previous_reset = [i \in Channels |-> 0]
  /\ reset_subsample = [i \in Channels |-> 0]
  /\ synced = [i \in Channels |-> FALSE]
  /\ last_coarse = [i \in Channels |-> 0]
  /\ filtered_cv = [i \in Channels |-> 0]
  /\ reset_low_seen = FALSE
  /\ reset_log = [low_since |-> [i \in Channels |-> FALSE],
                  ticks_since |-> [i \in Channels |-> -1]]
  /\ lfo_calls = NoCalls

\* The state after construction, the flash holding one of images and the
\* pots reading one of readings.
InitWith(images, readings) ==
  /\ InitUi(images, readings)
  /\ InitProc
  /\ pc = "poll"
  /\ pot_moves = 0
  /\ hist = [kind |-> "Init"]
  /\ press_log = [start |-> 0, stages |-> <<>>, data |-> <<>>, held |-> 0, count |-> 0]

InitFrom(images) == InitWith(images, {InitPots})

Init == InitFrom(InitStorage)

InitAny == InitFrom(AnyStorage)

InitSaved == InitFrom({SavedImage("FEAT_MODE_PHASE")})

\* ------------------------------------------------- the user interface alone

\* The quiet ticks Poll may account for: none, those up to the end of the
\* animation, and those that bring the held switch to its next threshold
\* plus one of offsets.
SkipChoices(offsets) ==
  {0}
  \cup (IF AnimationLeft > 0 THEN {AnimationLeft} ELSE {})
  \cup (IF sw = "pressed" /\ press_time # 0
        THEN {n \in {press_time + NextPressThreshold + d - now - 1 : d \in offsets} :
                n > 0}
        ELSE {})

\* The raw levels the switch may read: a new press only while left > 0.
RawInputs(left) ==
  IF sw \in {"up", "released"} /\ left <= 0 THEN {"up"} ELSE {"down", "up"}

\* The pot samples of one Poll: every pot at rest (reading its filtered
\* value), or, the switch being up and left > 0, one pot moving: pot i
\* reading v, for a pair <<i, v>> of moves.
AdcInputs(left, moves) ==
  {pot_filtered_value} \cup
  (IF left > 0 /\ sw = "up"
   THEN {[pot_filtered_value EXCEPT ![m[1]] = m[2]] : m \in moves}
   ELSE {})

\* A Poll that is itself a quiet tick.
IdlePoll(skip, raw, adc) ==
  /\ QuietRun(skip + 1)
  /\ Debounce(sw, raw) = sw
  /\ adc = pot_filtered_value

\* Poll with its inputs drawn from the given sets.
PollFrom(skips, raws, adcs) ==
  /\ pc = "poll"
  /\ \E skip \in skips, raw \in raws, adc \in adcs :
       /\ skip > 0 => adc = pot_filtered_value
       /\ ~IdlePoll(skip, raw, adc)
       /\ Poll(skip, raw, adc)

\* The presses of the select switch and the pot samples off rest in a run
\* of Spec.
MaxPresses == 1

MaxPotMoves == 1

\* The pots that move in Spec, to either end of the ADC range.
PotMoves == {<<i, v>> : i \in {0, 1}, v \in {0, UINT16_MAX}}

PollUi ==
  PollFrom(SkipChoices({1}), RawInputs(MaxPresses - press_log.count),
           AdcInputs(MaxPotMoves - pot_moves, PotMoves))

DoEventsUi == DoEvents("poll")

Next == PollUi \/ DoEventsUi

Spec == InitAny /\ [][Next]_vars

\* ------------------------------------------------ properties of the handlers

\* The events the last DoEvents handled, by position in the queue.
Handled == IF hist.kind = "DoEvents" THEN 1 .. Len(hist.events) ELSE {}

\* The Ui members before and after the handling of the k-th of them.
Before(k) == Drain(hist.before, SubSeq(hist.events, 1, k - 1))

After(k) == Drain(hist.before, SubSeq(hist.events, 1, k))

IsPot(e) == e.control_type = "CONTROL_POT"

IsRelease(e) == e.control_type = "CONTROL_SWITCH" /\ e.data # 0

IsShortRelease(e) == IsRelease(e) /\ e.data <= kLongPressDuration

IsClearSettings(e) == IsRelease(e) /\ e.data > kClearSettingsLongPressDuration

ZoomDefaults(s) ==
  \A i \in Channels :
    /\ s.pot_fine_value[i] = UINT16_MAX \div 2
    /\ s.pot_phase_value[i] = UINT16_MAX
    /\ s.pot_level_value[i] = UINT16_MAX
    /\ s.pot_atten_value[i] = UINT16_MAX

Persisted(b, a) == a.storage = SettingsImage(a) /\ a.save_count = b.save_count + 1

\* C4: in Normal a short release of the select switch (a release event of at
\* most kLongPressDuration) moves the feature mode one step round the cycle
\* Free, Quad, Phase, Divide, Free, puts the zoom settings of the four
\* channels at their defaults and saves once; the UI mode, the coarse values,
\* the catch-up flags, the banks, the random waveform indices and the
\* animation counter stay as they were.
C4_FeatureCycle ==
  \A k \in Handled :
    LET b == Before(k)
        a == After(k)
    IN (IsShortRelease(hist.events[k]) /\ b.mode = "UI_MODE_NORMAL") =>
         /\ a.feat_mode = CASE b.feat_mode = "FEAT_MODE_FREE" -> "FEAT_MODE_QUAD"
                            [] b.feat_mode = "FEAT_MODE_QUAD" -> "FEAT_MODE_PHASE"
                            [] b.feat_mode = "FEAT_MODE_PHASE" -> "FEAT_MODE_DIVIDE"
                            [] b.feat_mode = "FEAT_MODE_DIVIDE" -> "FEAT_MODE_FREE"
         /\ ZoomDefaults(a)
         /\ Persisted(b, a)
         /\ a.mode = b.mode
         /\ a.pot_coarse_value = b.pot_coarse_value
         /\ a.catchup_state = b.catchup_state
         /\ a.bank = b.bank
         /\ a.random_waveform_index = b.random_waveform_index
         /\ a.animation_counter = b.animation_counter

\* The cycle has wrapped from Divide to Free, and the image saved holds Free.
C4_Witness ==
  \E k \in Handled :
    /\ IsShortRelease(hist.events[k])
    /\ Before(k).mode = "UI_MODE_NORMAL"
    /\ Before(k).feat_mode = "FEAT_MODE_DIVIDE"
    /\ After(k).feat_mode = "FEAT_MODE_FREE"
    /\ storage.feat_mode = "FEAT_MODE_FREE"

\* The settings of C5 other than the feature mode: after the clear-settings
\* event every channel has the Classic bank, random waveform index 0 and the
\* default zoom settings, the settings are saved, and the UI shows Splash
\* from its first frame.
ClearedTo(b, a) ==
  /\ \A i \in Channels : a.bank[i] = "BANK_CLASSIC" /\ a.random_waveform_index[i] = 0
  /\ ZoomDefaults(a)
  /\ Persisted(b, a)
  /\ a.mode = "UI_MODE_SPLASH"
  /\ a.animation_counter = 0

\* C5 as stated: once the clear-settings event (a hold of more than 4000 ms)
\* is handled the feature mode is Free, the hidden settings are at their
\* defaults and saved, and the UI is in Splash with the animation counter 0.
C5_ClearToFree ==
  \A k \in Handled :
    IsClearSettings(hist.events[k]) =>
      After(k).feat_mode = "FEAT_MODE_FREE" /\ ClearedTo(Before(k), After(k))

\* C5, amended: once the clear-settings event is handled the feature mode is
\* the one before it, the hidden settings are at their defaults and saved
\* (the image holding that feature mode), and the UI is in Splash with the
\* animation counter 0.
C5_ClearKeepsFeature ==
  \A k \in Handled :
    IsClearSettings(hist.events[k]) =>
      /\ After(k).feat_mode = Before(k).feat_mode
      /\ ClearedTo(Before(k), After(k))

\* The clear-settings event has been handled with the feature mode off Free
\* and a channel on the Random bank.
C5_Witness ==
  \E k \in Handled :
    /\ IsClearSettings(hist.events[k])
    /\ Before(k).feat_mode # "FEAT_MODE_FREE"
    /\ \E i \in Channels : Before(k).bank[i] = "BANK_RANDOM"
    /\ mode = "UI_MODE_SPLASH"

C11_InitDefaults ==
  hist.kind = "Init" =>
    /\ ~storage.valid =>
         /\ feat_mode = "FEAT_MODE_FREE"
         /\ \A i \in Channels : bank[i] = "BANK_CLASSIC" /\ random_waveform_index[i] = 0
         /\ ZoomDefaults(UiRec)
    /\ mode = "UI_MODE_SPLASH"
    /\ \A i \in Channels :
         /\ ~catchup_state[i]
         /\ pot_coarse_value[i] = InitPots[i + 1]
         /\ pot_value[i] = InitPots[i + 1]
         /\ pot_filtered_value[i] = InitPots[i + 1]

\* Init has run with no valid image in the flash.
C11_Witness ==
  /\ hist.kind = "Init"
  /\ ~storage.valid
  /\ feat_mode = "FEAT_MODE_FREE"
  /\ pot_level_value[3] = UINT16_MAX
  /\ pot_coarse_value[1] = InitPots[2]

\* The persisted fields of s are those of t.
SameSettings(s, t) ==
  /\ s.feat_mode = t.feat_mode
  /\ s.bank = t.bank
  /\ s.random_waveform_index = t.random_waveform_index
  /\ s.pot_fine_value = t.pot_fine_value
  /\ s.pot_level_value = t.pot_level_value
  /\ s.pot_atten_value = t.pot_atten_value

\* C12 as stated: the SETTINGS_SIZE bytes from feat_mode_ on hold the feature
\* mode, the banks, the random waveform indices and the four values each of
\* fine, level, atten and phase: the load at the next start-up of what an
\* event has saved gives each of them the value it had at the save.
C12_SaveLoadRoundTrip ==
  \A k \in Handled :
    After(k).save_count > Before(k).save_count =>
      LET loaded == Load(ZeroUi, After(k).storage)
      IN /\ SameSettings(loaded, After(k))
         /\ loaded.pot_phase_value = After(k).pot_phase_value

\* A save whose load restores every persisted field but the phase values of
\* channels 2 and 3, which lie past the end of the range.
C12_Witness ==
  \E k \in Handled :
    /\ After(k).save_count > Before(k).save_count
    /\ SameSettings(Load(ZeroUi, After(k).storage), After(k))
    /\ \A i \in Channels :
         Load(ZeroUi, After(k).storage).pot_phase_value[i] = After(k).pot_phase_value[i]
           <=> i \in {0, 1}

\* ------------------------------------------------------------ the catch-up

\* The presses of the select switch and the pot samples off rest in a run
\* of SpecCatchup.
MaxCatchupPresses == 2

MaxCatchupMoves == 2

\* The pots that move in SpecCatchup: pot 0 up, pot 1 either way.
CatchupMoves == {<<0, UINT16_MAX>>, <<1, 0>>, <<1, UINT16_MAX>>}

\* Poll in SpecCatchup: while the UI shows Splash no pot moves and no press
\* begins (a press under way may end).
PollCatchup ==
  IF mode = "UI_MODE_SPLASH"
  THEN PollFrom(SkipChoices({1}), RawInputs(0), {pot_filtered_value})
  ELSE PollFrom(SkipChoices({1}), RawInputs(MaxCatchupPresses - press_log.count),
                AdcInputs(MaxCatchupMoves - pot_moves, CatchupMoves))

DoEventsCatchup == DoEvents("poll")

NextCatchup == PollCatchup \/ DoEventsCatchup

SpecCatchup == InitSaved /\ [][NextCatchup]_vars

\* C3: the catch-up/save transition from Zoom or RandomWaveformSelect to
\* Normal puts into catch-up every channel whose committed pot value is more
\* than 1024 away from its coarse value; and a pot event for a channel in
\* catch-up leaves the coarse value and the flag alone unless, in Normal, its
\* value is less than 1024 away from the coarse value: then coarse becomes
\* the value of the event and the flag clears.  No pot event changes the
\* coarse value of a channel other than its own.
C3_CatchUp ==
  \A k \in Handled :
    LET e == hist.events[k]
        b == Before(k)
        a == After(k)
    IN /\ (b.mode \in {"UI_MODE_ZOOM", "UI_MODE_RANDOM_WAVEFORM_SELECT"}
           /\ a.mode = "UI_MODE_NORMAL")
          => \A i \in Channels :
               Abs(b.pot_value[i] - b.pot_coarse_value[i]) > 1024 => a.catchup_state[i]
       /\ IsPot(e) =>
            \A i \in Channels :
              b.catchup_state[i] =>
                IF /\ i = e.control_id
                   /\ b.mode = "UI_MODE_NORMAL"
                   /\ Abs(e.data - b.pot_coarse_value[i]) < 1024
                THEN a.pot_coarse_value[i] = e.data /\ ~a.catchup_state[i]
                ELSE a.pot_coarse_value[i] = b.pot_coarse_value[i] /\ a.catchup_state[i]

\* A channel put into catch-up on leaving Zoom has ignored a pot event (its
\* coarse value is still the one of start-up) or has just snapped to one.
C3_Witness ==
  \E k \in Handled :
    /\ IsPot(hist.events[k])
    /\ Before(k).catchup_state[hist.events[k].control_id]
    /\ ~After(k).catchup_state[hist.events[k].control_id]
    /\ After(k).pot_coarse_value[hist.events[k].control_id] = hist.events[k].data
    /\ save_count > 0

\* What the handling of event e, which finds the members b of the Ui and
\* leaves them as a, may do to the coarse values and the catch-up flags.
CoarseFrame(e, b, a) ==
  /\ \A i \in Channels :
       /\ a.pot_coarse_value[i] # b.pot_coarse_value[i] =>
            /\ IsPot(e) /\ e.control_id = i
            /\ b.mode = "UI_MODE_NORMAL"
            /\ a.pot_coarse_value[i] = e.data
       /\ (a.catchup_state[i] /\ ~b.catchup_state[i]) =>
            /\ IsRelease(e)
            /\ b.mode \in {"UI_MODE_ZOOM", "UI_MODE_RANDOM_WAVEFORM_SELECT"}
            /\ a.mode = "UI_MODE_NORMAL"
            /\ Persisted(b, a)
            /\ Abs(b.pot_value[i] - b.pot_coarse_value[i]) > kCatchupThreshold
       /\ (b.catchup_state[i] /\ ~a.catchup_state[i]) =>
            /\ IsPot(e) /\ e.control_id = i
            /\ b.mode = "UI_MODE_NORMAL"
            /\ Abs(e.data - b.pot_coarse_value[i]) < kCatchupThreshold
  /\ (~IsPot(e) \/ b.mode # "UI_MODE_NORMAL" \/ a.mode # b.mode) =>
       a.pot_coarse_value = b.pot_coarse_value

\* C24: after Init the coarse value of a channel changes only when a pot
\* event of that channel is handled in Normal, to the value of the event; the
\* catch-up flag of a channel is set only by the catch-up/save transition
\* (for a channel more than the threshold away) and cleared only by a pot
\* event of that channel handled in Normal less than the threshold from the
\* coarse value; no switch event, no change of the UI mode, no pot event
\* handled in another mode and no step other than DoEvents changes a coarse
\* value or a flag.
C24_CoarseFrame ==
  [][/\ hist'.kind # "DoEvents" =>
          pot_coarse_value' = pot_coarse_value /\ catchup_state' = catchup_state
     /\ hist'.kind = "DoEvents" =>
          /\ hist'.before = UiRec
          /\ \A k \in 1 .. Len(hist'.events) :
               CoarseFrame(hist'.events[k],
                           Drain(UiRec, SubSeq(hist'.events, 1, k - 1)),
                           Drain(UiRec, SubSeq(hist'.events, 1, k)))
          /\ pot_coarse_value' =
               Drain(UiRec, hist'.events).pot_coarse_value
          /\ catchup_state' = Drain(UiRec, hist'.events).catchup_state]_vars

\* The release that leaves Zoom has put into catch-up a channel whose pot
\* had moved in Zoom, the coarse values staying as they were.
C24_Witness ==
  \E k \in Handled :
    /\ IsRelease(hist.events[k])
    /\ Before(k).mode = "UI_MODE_ZOOM"
    /\ After(k).mode = "UI_MODE_NORMAL"
    /\ After(k).pot_coarse_value = Before(k).pot_coarse_value
    /\ \E i \in Channels :
         /\ ~Before(k).catchup_state[i]
         /\ After(k).catchup_state[i]
         /\ Before(k).pot_value[i] # Before(k).pot_coarse_value[i]

\* The blinking before RandomWaveformSelect.
Blinking == "UI_MODE_SPLASH_FOR_RANDOM_WAVEFORM_SELECT"

MaxSavedPresses == 2

MaxSavedMoves == 2

\* The pots that move in SpecSaved: pot 2 up and pot 3 down.
SavedMoves == {<<2, UINT16_MAX>>, <<3, 0>>}

PollSaved ==
  IF mode = "UI_MODE_SPLASH"
  THEN PollFrom(SkipChoices({1}), RawInputs(0), {pot_filtered_value})
  ELSE PollFrom(SkipChoices({1}), RawInputs(MaxSavedPresses - press_log.count),
                AdcInputs(MaxSavedMoves - pot_moves, SavedMoves))

DoEventsSaved == DoEvents("poll")

NextSaved == PollSaved \/ DoEventsSaved

SpecSaved == Init /\ [][NextSaved]_vars

\* The UI is in Normal, the event queue having just been drained.
DrainedInNormal == hist.kind = "DoEvents" /\ mode = "UI_MODE_NORMAL"

\* C23 as stated: in Normal after the event queue has been drained, the
\* feature mode, the banks, the random waveform indices and the fine, phase,
\* level and atten values of the four channels in memory are those of the
\* image in the flash (the last saved, or the one loaded), or the defaults
\* if the flash holds no valid image.
C23_NormalIsSaved ==
  DrainedInNormal =>
    IF storage.valid
    THEN /\ feat_mode = storage.feat_mode
         /\ bank = storage.bank
         /\ random_waveform_index = storage.random_waveform_index
         /\ pot_fine_value = storage.pot_fine_value
         /\ pot_level_value = storage.pot_level_value
         /\ pot_atten_value = storage.pot_atten_value
         /\ \A i \in Channels :
              /\ i \in DOMAIN storage.pot_phase_value
              /\ pot_phase_value[i] = storage.pot_phase_value[i]
    ELSE /\ feat_mode = "FEAT_MODE_FREE"
         /\ \A i \in Channels :
              /\ bank[i] = "BANK_CLASSIC"
              /\ random_waveform_index[i] = 0
              /\ pot_fine_value[i] = UINT16_MAX \div 2
              /\ pot_phase_value[i] = UINT16_MAX
              /\ pot_level_value[i] = UINT16_MAX
              /\ pot_atten_value[i] = UINT16_MAX

\* The phase of channel 2, set in Zoom, is in memory in Normal after the
\* save on leaving Zoom, and the image in the flash does not hold it.
C23_Witness ==
  /\ DrainedInNormal
  /\ hist.before.mode = "UI_MODE_ZOOM"
  /\ save_count > 0
  /\ storage = SettingsImage(UiRec)
  /\ last_touched_pot = 2
  /\ pot_phase_value[2] = pot_value[3]
  /\ pot_phase_value[2] \notin {0, UINT16_MAX}
  /\ 2 \notin DOMAIN storage.pot_phase_value

\* ------------------------------------------------------ the switch gestures

\* The presses of a run of SpecSwitch, and how far from a threshold of the
\* hold (in ms) a Poll of it may come after a run of quiet ticks.
MaxSwitchPresses == 2

SwitchOffsets == {-1, 0, 1}

PollSwitchOnly ==
  PollFrom(SkipChoices(SwitchOffsets), RawInputs(MaxSwitchPresses - press_log.count),
           {pot_filtered_value})

DoEventsSwitch == DoEvents("poll")

NextSwitch == PollSwitchOnly \/ DoEventsSwitch

SpecSwitch == Init /\ [][NextSwitch]_vars

\* The thresholds the hold of the current press has crossed.
Crossed ==
  Cardinality({th \in {kLongPressDuration, kVeryLongPressDuration,
                       kClearSettingsLongPressDuration} : press_log.held > th})

\* The events Poll has queued for the current press after the one of the
\* press itself, but for the release.
Fired == SelectSeq(press_log.stages, LAMBDA st : st # "release")

\* One event per threshold crossed while held, in the order of the
\* thresholds, and none twice.
OnePerThreshold == Fired = SubSeq(<<"long", "verylong", "clear">>, 1, Crossed)

\* A release event is the only event of its press after the press event.
ReleaseAlone ==
  (\E k \in 1 .. Len(press_log.stages) : press_log.stages[k] = "release")
    => press_log.stages = <<"release">>

\* The press is over and no threshold event was queued for it.
ReleasedEarly == press_log.count > 0 /\ sw \in {"released", "up"} /\ Fired = <<>>

\* C2 as stated: for every press Poll queues exactly one event per threshold
\* (500, 2000, 4000 ms) the hold crosses, in increasing order and never
\* twice; and a press released before the 500 ms event has fired gets exactly
\* one release event, whose value is non-zero and less than 500.
C2_Gestures ==
  /\ OnePerThreshold
  /\ ReleaseAlone
  /\ ReleasedEarly =>
       /\ press_log.stages = <<"release">>
       /\ press_log.data[1] # 0
       /\ press_log.data[1] < kLongPressDuration

\* A press held for 500 ms, over before any threshold event: its release
\* event carries 502, and the handler has taken it for a long press and
\* entered Zoom.
C2_Witness ==
  /\ ReleasedEarly
  /\ press_log.stages = <<"release">>
  /\ press_log.held = kLongPressDuration
  /\ press_log.data[1] = kLongPressDuration + 2
  /\ mode = "UI_MODE_ZOOM"

\* The last step was the DoEvents of the tick in which the select switch was
\* released: a switch event of non-zero data in its queue is the release
\* event of the press.
ReleaseHandled == hist.kind = "DoEvents" /\ sw = "released"

\* C20 as stated: a release event of the select switch handled in
\* RandomWaveformSelect leaves the UI mode at Normal, every channel whose
\* committed pot value is more than 1024 from its coarse value in catch-up,
\* and the settings saved.
C20_ReleaseLeavesSelect ==
  ReleaseHandled =>
    \A k \in Handled :
      LET e == hist.events[k]
          b == Before(k)
          a == After(k)
      IN (IsRelease(e) /\ b.mode = "UI_MODE_RANDOM_WAVEFORM_SELECT") =>
           /\ a.mode = "UI_MODE_NORMAL"
           /\ \A i \in Channels :
                Abs(b.pot_value[i] - b.pot_coarse_value[i]) > 1024 => a.catchup_state[i]
           /\ Persisted(b, a)

\* In RandomWaveformSelect a press held for 500 ms has been released: its
\* release event carries 502, the handler has taken it for a long press, and
\* the UI mode is still RandomWaveformSelect with nothing saved.
C20_Witness ==
  /\ ReleaseHandled
  /\ press_log.held = kLongPressDuration
  /\ \E k \in Handled :
       /\ IsRelease(hist.events[k])
       /\ hist.events[k].data = kLongPressDuration + 2
       /\ Before(k).mode = "UI_MODE_RANDOM_WAVEFORM_SELECT"
       /\ After(k) = Before(k)
  /\ mode = "UI_MODE_RANDOM_WAVEFORM_SELECT"

\* The stage of the gesture that queued the switch event of non-zero data the
\* last DoEvents handled: the last stage Poll has logged for the press.
StageHandled == press_log.stages[Len(press_log.stages)]

\* What the handler of a gesture stage makes of the members s of the Ui.
StageHandler(stage, s) ==
  CASE stage = "release" -> OnShortRelease(s)
    [] stage = "long" -> OnLongPress(s)
    [] stage = "verylong" -> OnVeryLongPress(s)
    [] stage = "clear" -> OnClearSettings(s)

\* C22 as stated: a switch event of non-zero data is handled as the gesture
\* stage that queued it: the release event of a press released before the
\* 500 ms event as a short release, the event of the long stage as long,
\* that of the very-long stage as very long, that of the clear stage as
\* clear settings.
C22_StageHandledAsQueued ==
  \A k \in Handled :
    IsRelease(hist.events[k]) =>
      /\ press_log.stages # <<>>
      /\ After(k) = StageHandler(StageHandled, Before(k))

\* In Normal a press held for 499 ms has been released before any threshold
\* event: its release event carries 501 and has been handled as a long
\* press, the UI mode being Zoom and the feature mode as it was.
C22_Witness ==
  /\ ReleaseHandled
  /\ press_log.stages = <<"release">>
  /\ press_log.held = kLongPressDuration - 1
  /\ \E k \in Handled :
       /\ IsRelease(hist.events[k])
       /\ hist.events[k].data = kLongPressDuration + 1
       /\ Before(k).mode = "UI_MODE_NORMAL"
       /\ After(k) = OnLongPress(Before(k))
       /\ After(k) # OnShortRelease(Before(k))
  /\ mode = "UI_MODE_ZOOM"

\* -------------------------------------------------------------- the pots

\* The press and the pot samples off rest of a run of SpecPot.
MaxPotPresses == 1

MaxPotSamples == 3

\* The samples of SpecPot: pots 0 to 2 turned to the top of the range and
\* pots 1 and 3 to the bottom, and on pot 1 the samples that bring its
\* filtered value, from the reading of start-up, to a threshold away (the
\* filter divides the step by 32) or one short of it.
PotSamples ==
  {<<0, UINT16_MAX>>, <<1, UINT16_MAX>>, <<2, UINT16_MAX>>, <<1, 0>>, <<3, 0>>}
  \cup {<<1, InitPots[2] + 32 * th - d>> :
          th \in {kPotMoveThreshold, kPotMoveThresholdOnZoomMode}, d \in {0, 1}}

PollPots ==
  PollFrom(SkipChoices({1}), RawInputs(MaxPotPresses - press_log.count),
           AdcInputs(MaxPotSamples - pot_moves, PotSamples))

DoEventsPots == DoEvents("poll")

NextPot == PollPots \/ DoEventsPots

SpecPot == Init /\ [][NextPot]_vars

\* The pot events in the queue for pot i.
QueuedFor(i) ==
  {k \in 1 .. Len(queue) : queue[k].control_type = "CONTROL_POT" /\ queue[k].control_id = i}

\* C1: after a Poll, for every pot i, with filtered' = (31 * filtered +
\* sample) >> 5: a pot event for pot i has been queued in that tick if and
\* only if |filtered' - committed| >= T, for T the threshold of the mode (256;
\* 1024 in Zoom; 2048 in RandomWaveformSelect); the event, if any, is the only
\* one, carries filtered', and the committed value has become filtered';
\* with no event the committed value is as it was.
C1_PotHysteresis ==
  hist.kind = "Poll" =>
    \A i \in Channels :
      LET filtered == (31 * hist.pot_filtered_value[i] + hist.adc[i]) \div 32
          committed == hist.pot_value[i]
          T == CASE hist.mode = "UI_MODE_ZOOM" -> 1024
                 [] hist.mode = "UI_MODE_RANDOM_WAVEFORM_SELECT" -> 2048
                 [] OTHER -> 256
      IN /\ pot_filtered_value[i] = filtered
         /\ IF Abs(filtered - committed) >= T
            THEN /\ Cardinality(QueuedFor(i)) = 1
                 /\ \A k \in QueuedFor(i) : queue[k].data = filtered
                 /\ pot_value[i] = filtered
            ELSE /\ QueuedFor(i) = {}
                 /\ pot_value[i] = committed

\* In Zoom a pot has come exactly 1024 from its committed value and its event
\* is in the queue, while the other pots rest.
C1_Witness ==
  /\ hist.kind = "Poll"
  /\ hist.mode = "UI_MODE_ZOOM"
  /\ \E i \in Channels :
       /\ pot_filtered_value[i] - hist.pot_value[i] = kPotMoveThresholdOnZoomMode
       /\ QueuedFor(i) # {}
       /\ Len(queue) = 1

\* C10: in RandomWaveformSelect a pot event of value v for channel c gives c
\* the Classic bank and random index 0 if v < 9500 and otherwise the Random
\* bank, with as index the number of thresholds of {9500, 26214, 42312,
\* 60000} that are at most v, less one (from 0 to 3); the bank and the index
\* of every other channel stay as they were.
C10_WaveformSelection ==
  \A k \in Handled :
    LET e == hist.events[k]
        b == Before(k)
        a == After(k)
        reached == Cardinality({th \in {9500, 26214, 42312, 60000} : th <= e.data})
    IN (IsPot(e) /\ b.mode = "UI_MODE_RANDOM_WAVEFORM_SELECT") =>
         /\ e.data < 9500 <=> a.bank[e.control_id] = "BANK_CLASSIC"
         /\ e.data < 9500 => a.random_waveform_index[e.control_id] = 0
         /\ e.data >= 9500 =>
              /\ a.bank[e.control_id] = "BANK_RANDOM"
              /\ a.random_waveform_index[e.control_id] = reached - 1
              /\ a.random_waveform_index[e.control_id] \in 0 .. 3
         /\ \A i \in Channels \ {e.control_id} :
              /\ a.bank[i] = b.bank[i]
              /\ a.random_waveform_index[i] = b.random_waveform_index[i]

\* In RandomWaveformSelect the pot of a channel on the Random bank has put
\* it back on the Classic bank, another channel staying on the Random bank.
C10_Witness ==
  \E k \in Handled :
    /\ IsPot(hist.events[k])
    /\ Before(k).mode = "UI_MODE_RANDOM_WAVEFORM_SELECT"
    /\ Before(k).bank[hist.events[k].control_id] = "BANK_RANDOM"
    /\ After(k).bank[hist.events[k].control_id] = "BANK_CLASSIC"
    /\ \E i \in Channels : After(k).bank[i] = "BANK_RANDOM"

\* b with the value v written to the parameter of channel c that pot p
\* stands for in Zoom: fine, level, atten, phase for p = 0, 1, 2, 3.
ZoomWrite(b, c, p, v) ==
  [b EXCEPT !.pot_fine_value = IF p = 0 THEN [@ EXCEPT ![c] = v] ELSE @,
            !.pot_level_value = IF p = 1 THEN [@ EXCEPT ![c] = v] ELSE @,
            !.pot_atten_value = IF p = 2 THEN [@ EXCEPT ![c] = v] ELSE @,
            !.pot_phase_value = IF p = 3 THEN [@ EXCEPT ![c] = v] ELSE @]

MaxProcessTicks == 5

MaxProcPresses == 1

\* The inputs of Process: the sync switch up or down, a steady voltage on
\* the CV inputs, and the reset inputs of channels 0 and 3 low, between the
\* thresholds or high.
SyncInputs == BOOLEAN

CvInputs == {<<6400, 0, -6400, 0>>}

ResetInputs ==
  {<<r0, 0, 0, r3>> : r0 \in {0, 30000}, r3 \in {0, 15000, 30000}}

\* The outcomes of a division by zero.
UndefinedQuotients == {0, -1}

\* Poll in the tick with Process: in Splash, where Process does nothing, as
\* in Spec; out of it tick by tick.
PollProc ==
  /\ pc = "poll"
  /\ now < 4 * kSplashFrames + MaxProcessTicks
  /\ IF mode = "UI_MODE_SPLASH"
     THEN PollFrom({0, AnimationLeft}, RawInputs(MaxProcPresses - press_log.count),
                   {pot_filtered_value})
     ELSE \E raw \in RawInputs(MaxProcPresses - press_log.count) :
            Poll(0, raw, pot_filtered_value)

DoEventsProc == DoEvents("process")

\* A reset input reads as it did on the tick before: its trigger, if any,
\* divides by zero.
ZeroDivisor(reset) == \E i \in Channels : reset[i + 1] = previous_reset[i]

ProcessProc ==
  \E sync \in SyncInputs, cv \in CvInputs, reset \in ResetInputs :
    \E undef \in IF ZeroDivisor(reset) /\ mode # "UI_MODE_SPLASH"
                 THEN UndefinedQuotients ELSE {0} :
      Process(sync, [i \in Channels |-> cv[i + 1]], [i \in Channels |-> reset[i + 1]], undef)

NextProc == PollProc \/ DoEventsProc \/ ProcessProc

SpecProc == Init /\ [][NextProc]_vars

\* The last step was a Process that ran (the UI mode was not Splash) in
\* feature mode Quad.
ProcessedInQuad ==
  hist.kind = "Process" /\ hist.mode # "UI_MODE_SPLASH" /\ hist.feat_mode = "FEAT_MODE_QUAD"

\* The waveform offset that Process started from: 0 if the feature mode had
\* changed.
OffsetBefore ==
  IF hist.before.previous_feat_mode # hist.feat_mode THEN 0
  ELSE hist.before.waveform_offset

\* C6: in Quad a reset trigger on channel 3 adds exactly 1 to the waveform
\* offset and clears the armed flag of channel 3 in that tick; and the offset
\* advances (by 1) only on a tick whose reset input 3 reads above 20000, the
\* input having read below 10000 since the offset last advanced.
C6_QuadWaveformAdvance ==
  ProcessedInQuad =>
    /\ reset_triggered[3] =>
         waveform_offset = OffsetBefore + 1 /\ ~reset_trigger_armed[3]
    /\ waveform_offset # OffsetBefore =>
         /\ waveform_offset = OffsetBefore + 1
         /\ hist.reset[3] > 20000
         /\ hist.reset_low_seen

\* In Quad the waveform offset has advanced a second time, the input of
\* channel 3 having gone low and high again.
C6_Witness ==
  /\ ProcessedInQuad
  /\ reset_triggered[3]
  /\ waveform_offset = 2
  /\ ~reset_trigger_armed[3]

\* C7: the UI is in Splash only with the animation counter in 0 .. 256, from
\* start-up on the counter is the number of ticks, the Poll that finds it at
\* 256 (the 257th) and no other moves the mode on, to Normal, whatever the
\* inputs; and a Process of a tick in Splash leaves every member of the
\* Processor as it was and calls no oscillator and no DAC.
C7_SplashDuration ==
  /\ mode = "UI_MODE_SPLASH" =>
       /\ animation_counter <= 4 * kSplashFrames
       /\ save_count = 0 => animation_counter = now
  /\ (hist.kind = "Poll" /\ hist.mode = "UI_MODE_SPLASH") =>
       /\ mode \in {"UI_MODE_SPLASH", "UI_MODE_NORMAL"}
       /\ mode = "UI_MODE_NORMAL" <=> animation_counter = 4 * kSplashFrames + 1
       /\ (mode = "UI_MODE_NORMAL" /\ save_count = 0) => now = 4 * kSplashFrames + 1
  /\ (hist.kind = "Process" /\ hist.mode = "UI_MODE_SPLASH") =>
       /\ lfo_calls = NoCalls
       /\ [ProcRec EXCEPT !.lfo_calls = hist.before.lfo_calls] = hist.before

\* Process has run in the tick in which Splash ended, the 257th, which a
\* press of the switch has not moved.
C7_Witness ==
  /\ hist.kind = "Process"
  /\ hist.mode = "UI_MODE_NORMAL"
  /\ now = 4 * kSplashFrames + 1
  /\ lfo_calls.init
  /\ press_log.count = 1

\* The last step was a Process that ran (the UI mode was not Splash).
Processed == hist.kind = "Process" /\ hist.mode # "UI_MODE_SPLASH"

\* The waveform branch of Quad, Phase and Divide has advanced the offset.
Advanced == hist.feat_mode # "FEAT_MODE_FREE" /\ reset_triggered[3]

\* C14: a Process that runs (the UI mode is not Splash) re-initialises the
\* four oscillators if and only if the feature mode is not the one of the
\* Process that ran before it (none at start-up); if it is not, the waveform
\* offset restarts from 0 before the topology is applied, which may advance
\* it by one; if it is, the offset is the one before, advanced or not.
C14_ModeChangeReinit ==
  Processed =>
    LET changed == hist.feat_mode # hist.before.previous_feat_mode
    IN /\ lfo_calls.init <=> changed
       /\ previous_feat_mode = hist.feat_mode
       /\ waveform_offset = (IF changed THEN 0 ELSE hist.before.waveform_offset)
                              + (IF Advanced THEN 1 ELSE 0)

\* The feature mode has changed from one Process to the next with the
\* waveform offset off 0, and the offset is back at 0.
C14_Witness ==
  /\ Processed
  /\ hist.before.previous_feat_mode \in {"FEAT_MODE_QUAD", "FEAT_MODE_PHASE"}
  /\ hist.feat_mode # hist.before.previous_feat_mode
  /\ hist.before.waveform_offset > 0
  /\ lfo_calls.init
  /\ waveform_offset = 0

\* ------------------------------------------------------ the reset inputs

\* The ticks of a run of SpecReset after the splash animation of start-up.
MaxResetTicks == 5

\* The reset inputs of SpecReset: those of channels 0 and 1 low or high.
ResetLevels == {<<r0, r1, 0, 0>> : r0 \in {0, 30000}, r1 \in {0, 30000}}

\* Poll in SpecReset: the panel is not touched.
PollReset ==
  /\ pc = "poll"
  /\ now < 4 * kSplashFrames + MaxResetTicks
  /\ IF mode = "UI_MODE_SPLASH"
     THEN PollFrom({AnimationLeft}, {"up"}, {pot_filtered_value})
     ELSE Poll(0, "up", pot_filtered_value)

DoEventsReset == DoEvents("process")

ProcessReset ==
  \E sync \in SyncInputs, reset \in ResetLevels :
    \E undef \in IF ZeroDivisor(reset) /\ mode # "UI_MODE_SPLASH"
                 THEN UndefinedQuotients ELSE {0} :
      Process(sync, [i \in Channels |-> 0], [i \in Channels |-> reset[i + 1]], undef)

NextReset == PollReset \/ DoEventsReset \/ ProcessReset

SpecReset == Init /\ [][NextReset]_vars

\* C13 as stated: whenever Process marks a channel reset-triggered, the
\* divisor (the reset sample less the previous one) is strictly positive and
\* the sub-sample offset computed is in 0 .. 32, for every channel in every
\* feature mode.
C13_SubsampleRange ==
  Processed =>
    \A i \in Channels :
      reset_triggered[i] =>
        /\ hist.reset[i] - hist.before.previous_reset[i] > 0
        /\ reset_subsample[i] \in 0 .. 32

\* In Phase channel 1, whose input has stayed high since its trigger of the
\* tick before, is reset-triggered again, the divisor being 0.
C13_Witness ==
  /\ Processed
  /\ hist.feat_mode = "FEAT_MODE_PHASE"
  /\ hist.before.reset_triggered[1]
  /\ reset_triggered[1]
  /\ hist.reset[1] = hist.before.previous_reset[1]

\* C15 as stated: in every feature mode a channel is reset-triggered on a
\* tick only if its reset input reads above 20000 and has read below 10000
\* since the previous trigger of that channel.
C15_EdgeDetection ==
  Processed =>
    \A i \in Channels :
      reset_triggered[i] =>
        /\ hist.reset[i] > kResetThresholdHigh
        /\ hist.reset_log.low_since[i]

\* In Phase channel 1 is reset-triggered on a tick although its input has not
\* read low since its trigger of the tick before; channel 0, with the same
\* input, is not.
C15_Witness ==
  /\ Processed
  /\ hist.feat_mode = "FEAT_MODE_PHASE"
  /\ reset_triggered[1]
  /\ ~hist.reset_log.low_since[1]
  /\ hist.reset[0] = hist.reset[1]
  /\ hist.before.previous_reset[0] = hist.before.previous_reset[1]
  /\ ~reset_triggered[0]

\* C16 as stated: on a tick that reset-triggers a channel SetFrequency runs
\* for, N ticks after the previous trigger of the channel: with the sync
\* switch on set_period is called with N and the channel is marked synced,
\* with it off the oscillator is reset at the sub-sample offset of the tick;
\* either way the channel is disarmed and the count of ticks restarts at 0.
C16_SyncPeriod ==
  Processed =>
    \A i \in Channels :
      (Master(hist.feat_mode, i) /\ reset_triggered[i]) =>
        /\ hist.sync =>
             /\ hist.reset_log.ticks_since[i] >= 0 =>
                  lfo_calls.set_period[i] = hist.reset_log.ticks_since[i] + 1
             /\ synced[i]
             /\ lfo_calls.reset[i] = -1
        /\ ~hist.sync =>
             /\ lfo_calls.reset[i] = reset_subsample[i]
             /\ lfo_calls.set_period[i] = -1
        /\ ~reset_trigger_armed[i]
        /\ last_reset[i] = 0

\* With the sync switch on channel 0 is reset-triggered two ticks after its
\* previous trigger, and set_period is called with 1.
C16_Witness ==
  /\ Processed
  /\ hist.sync
  /\ reset_triggered[0]
  /\ hist.reset_log.ticks_since[0] = 1
  /\ lfo_calls.set_period[0] = 1
  /\ synced[0]
  /\ last_reset[0] = 0

\* ------------------------------------------------------------ Phase mode

\* The ticks of a run of SpecPhase after the splash animation of start-up.
MaxPhaseTicks == 3

\* The pot readings at the start-up of SpecPhase: pots 1 to 3 at the top of
\* the range, pot 2 255 and 256 below it, and the readings of InitPots.
PhasePots ==
  {<<5000, 65535, 65535, 65535>>, <<5000, 65535, 65280, 65535>>,
   <<5000, 65535, 65279, 65535>>, InitPots}

\* The CV inputs of SpecPhase.
PhaseCvs == {<<0, 0, 0, 0>>, <<6400, 640, -6400, 0>>}

\* The reset inputs of SpecPhase: that of channel 3 low or high.
PhaseResets == {<<0, 0, 0, r3>> : r3 \in {0, 30000}}

InitPhase == InitWith({SavedImage("FEAT_MODE_PHASE")}, PhasePots)

PollPhase ==
  /\ pc = "poll"
  /\ now < 4 * kSplashFrames + MaxPhaseTicks
  /\ IF mode = "UI_MODE_SPLASH"
     THEN PollFrom({AnimationLeft}, {"up"}, {pot_filtered_value})
     ELSE Poll(0, "up", pot_filtered_value)

DoEventsPhase == DoEvents("process")

ProcessPhase ==
  \E sync \in SyncInputs, cv \in PhaseCvs, reset \in PhaseResets :
    Process(sync, [i \in Channels |-> cv[i + 1]], [i \in Channels |-> reset[i + 1]], 0)

NextPhase == PollPhase \/ DoEventsPhase \/ ProcessPhase

SpecPhase == InitPhase /\ [][NextPhase]_vars

\* C17 as stated: a Process in Phase, the coarse values of channels 1 to 3
\* all less than 256 below the maximum, gives each linked channel i of 1 .. 3
\* the initial phase (4 - i) * 16384; otherwise it gives each the phase of
\* the conversion of its coarse, fine and CV values and as divider
\* (7 * (65535 - phase pot)) >> 16 clamped to 1 .. 16.
C17_QuadraturePhase ==
  (Processed /\ hist.feat_mode = "FEAT_MODE_PHASE") =>
    IF \A i \in 1 .. 3 : UINT16_MAX - pot_coarse_value[i] < 256
    THEN \A i \in 1 .. 3 : lfo_calls.set_initial_phase[i] = (4 - i) * 16384
    ELSE \A i \in 1 .. 3 :
           /\ lfo_calls.set_initial_phase[i] =
                AdcValuesToPhase(pot_coarse_value[i], pot_fine_value[i] - 32768,
                                 (filtered_cv[i] * pot_atten_value[i]) \div 65536)
           /\ lfo_calls.set_divider[i] =
                Constrain((7 * (65535 - pot_phase_value[i])) \div 65536, 1, 16)

\* A Process in Phase with pot 2 255 below the maximum and the others at it:
\* the linked channels get 49149, 32766 and 16383.
C17_Witness ==
  /\ Processed
  /\ hist.feat_mode = "FEAT_MODE_PHASE"
  /\ pot_coarse_value[2] = UINT16_MAX - 255
  /\ lfo_calls.set_initial_phase[1] = 49149
  /\ lfo_calls.set_initial_phase[2] = 32766
  /\ lfo_calls.set_initial_phase[3] = 16383
  /\ lfo_calls.set_divider[1] = -1

\* ------------------------------------------------ the pitch and the sync

\* The ticks of a run of SpecPitch after the splash animation of start-up,
\* and the pot samples off rest in it.
MaxPitchTicks == 4

MaxPitchMoves == 1

\* The pots that move in SpecPitch: the coarse value of channel 0 goes up
\* and that of channel 3 down, by kUnsyncPotThreshold or by one less.
PitchMoves == {<<0, 57416>>, <<0, 57384>>, <<3, 13119>>, <<3, 13151>>}

\* The reset inputs of channels 0 and 3, low or high together.
PitchResets == {<<r, 0, 0, r>> : r \in {0, 30000}}

PollPitch ==
  /\ pc = "poll"
  /\ now < 4 * kSplashFrames + MaxPitchTicks
  /\ IF mode = "UI_MODE_SPLASH"
     THEN PollFrom({AnimationLeft}, {"up"}, {pot_filtered_value})
     ELSE \E adc \in AdcInputs(MaxPitchMoves - pot_moves, PitchMoves) :
            Poll(0, "up", adc)

DoEventsPitch == DoEvents("process")

ProcessPitch ==
  \E sync \in SyncInputs, reset \in PitchResets :
    \E undef \in IF ZeroDivisor(reset) /\ mode # "UI_MODE_SPLASH"
                 THEN UndefinedQuotients ELSE {0} :
      Process(sync, [i \in Channels |-> 0], [i \in Channels |-> reset[i + 1]], undef)

NextPitch == PollPitch \/ DoEventsPitch \/ ProcessPitch

SpecPitch == Init /\ [][NextPitch]_vars

\* The distance of the coarse value of channel i from the coarse value at
\* its last pitch application, as the last Process found it.
CoarseDistance(i) == Abs(pot_coarse_value[i] - hist.before.last_coarse[i])

\* C18 (as amended): on a tick on which SetFrequency runs for a channel,
\* set_pitch is called only when the channel was unsynced or its coarse
\* value is kUnsyncPotThreshold or more away from the coarse value at the
\* last pitch application, and exactly when one of the two holds after the
\* reset trigger of the tick is accounted for; when it is called, the
\* last-applied coarse becomes the current coarse and the synced flag
\* clears, and otherwise both are as they were or the channel has just
\* synced.  A channel becomes synced only by a reset trigger in sync mode,
\* and a synced channel stays synced, with no pitch applied, on every tick
\* on which the coarse value is less than kUnsyncPotThreshold away.
C18_PitchHysteresis ==
  Processed =>
    \A i \in Channels :
      IF Master(hist.feat_mode, i)
      THEN LET moved == CoarseDistance(i) >= kUnsyncPotThreshold
               was_synced == hist.before.synced[i]
               syncs == reset_triggered[i] /\ hist.sync
           IN /\ lfo_calls.set_pitch[i] => ~was_synced \/ moved
              /\ lfo_calls.set_pitch[i] <=> (~(was_synced \/ syncs) \/ moved)
              /\ lfo_calls.set_pitch[i] =>
                   last_coarse[i] = pot_coarse_value[i] /\ ~synced[i]
              /\ ~lfo_calls.set_pitch[i] =>
                   last_coarse[i] = hist.before.last_coarse[i] /\ synced[i]
              /\ (synced[i] /\ ~was_synced) => syncs
              /\ (was_synced /\ ~moved) => synced[i] /\ ~lfo_calls.set_pitch[i]
      ELSE /\ ~lfo_calls.set_pitch[i]
           /\ synced[i] = hist.before.synced[i]
           /\ last_coarse[i] = hist.before.last_coarse[i]

\* A synced channel whose coarse value is exactly kUnsyncPotThreshold away
\* from the last-applied one gets its pitch applied and unsyncs.
C18_Witness ==
  /\ Processed
  /\ \E i \in Channels :
       /\ Master(hist.feat_mode, i)
       /\ hist.before.synced[i]
       /\ CoarseDistance(i) = kUnsyncPotThreshold
       /\ lfo_calls.set_pitch[i]
       /\ ~synced[i]
       /\ last_coarse[i] = pot_coarse_value[i]

\* C18 as stated: the pitch of a synced channel is applied only when the
\* coarse value has moved by more than kUnsyncPotThreshold, and the channel
\* stays synced until then.
C18_AsStated ==
  Processed =>
    \A i \in Channels :
      Master(hist.feat_mode, i) =>
        LET moved == CoarseDistance(i) > kUnsyncPotThreshold
        IN /\ lfo_calls.set_pitch[i] => ~hist.before.synced[i] \/ moved
           /\ (hist.before.synced[i] /\ ~moved) => synced[i] /\ ~lfo_calls.set_pitch[i]

\* ------------------------------------------------------ the conversions

\* The values an entry of lut_scale_divide_multiply may have: any int8_t.
LutEntries == -128 .. 127

\* The inputs of the conversion: the pot and the CV at the ends and in the
\* middle of their ranges, and the fine value at the ends of its range and
\* on either side of each change of the fine step.
ConvPots == {0, 32768, UINT16_MAX}

ConvCvs == {-32768, 0, INT16_MAX}

ConvFines ==
  {-32768, -32767, -19661, -19660, -6554, -6553, 6554, 6555, 19661, 19662, INT16_MAX}

\* A call of AdcValuesToDividerMultiplier after start-up, the table holding
\* entry at the index of the call.
Convert ==
  /\ hist.kind = "Init"
  /\ \E pot \in ConvPots, cv \in ConvCvs, fine \in ConvFines, entry \in LutEntries :
       /\ hist' = [kind |-> "Convert", pot |-> pot, cv |-> cv, fine |-> fine,
                   index |-> CtrlIndex(pot, cv), entry |-> entry,
                   result |-> AdcValuesToDividerMultiplier(
                                [i \in 0 .. 255 |-> entry], pot, fine, cv)]
       /\ UNCHANGED <<uiVars, envVars, procVars, pc, pot_moves, press_log>>

NextDiv == Convert

SpecDiv == Init /\ [][NextDiv]_vars

\* C9: AdcValuesToDividerMultiplier returns neither 0 nor -1: for every
\* table entry and every fine step the result is in -64 .. -2 or in 1 .. 64;
\* entry 2 with fine step 2 gives -2, entry 1 with fine step 2 gives -3,
\* entry 1 with fine step 1 gives -2, and entry -2 with fine step -2 gives 2.
C9_DividerMultiplierRange ==
  hist.kind = "Convert" =>
    LET step == (5 * (hist.fine + 6553)) \div 65536
    IN /\ hist.result \in (-64 .. -2) \cup (1 .. 64)
       /\ (hist.entry = 2 /\ step = 2) => hist.result = -2
       /\ (hist.entry = 1 /\ step = 2) => hist.result = -3
       /\ (hist.entry = 1 /\ step = 1) => hist.result = -2
       /\ (hist.entry = -2 /\ step = -2) => hist.result = 2

\* The conversion has been called with the table giving 2 and a fine value
\* of step 2, and has returned -2.
C9_Witness ==
  /\ hist.kind = "Convert"
  /\ hist.entry = 2
  /\ FineStep(hist.fine) = 2
  /\ hist.result = -2

\* The ratios of the divide/multiply scale, in their order: the dividers
\* -64 .. -2, then the multipliers 1 .. 64.
Ratios == (-64 .. -2) \cup (1 .. 64)

\* C25 as stated: for every fine value and CV, AdcValuesToDividerMultiplier
\* is monotone in the table entry along the ratios ..., -3, -2, 1, 2, 3, ...:
\* a larger entry never gives a smaller result.
C25_MonotoneInEntry ==
  (hist.kind = "Convert" /\ hist.entry \in Ratios) =>
    \A larger \in Ratios :
      larger > hist.entry =>
        AdcValuesToDividerMultiplier([i \in 0 .. 255 |-> larger],
                                     hist.pot, hist.fine, hist.cv) >= hist.result

\* The conversion has been called with the fine value at -32768, of fine
\* step -3, and the table giving -3: it has returned 2, and with the table
\* giving -2 it returns 1.
C25_Witness ==
  /\ hist.kind = "Convert"
  /\ hist.fine = -32768
  /\ FineStep(hist.fine) = -3
  /\ hist.entry = -3
  /\ hist.result = 2
  /\ AdcValuesToDividerMultiplier([i \in 0 .. 255 |-> -2],
                                  hist.pot, hist.fine, hist.cv) = 1

====
